---- MODULE Spec2Model ----
(***************************************************************************)
(* Lootpack service: LootpackService of src/src/lootpacks.rs.              *)
(*                                                                         *)
(* The storage engine is a relational store with READ COMMITTED            *)
(* transactions (the default of the PgPool the service is built on): a     *)
(* statement reads the rows committed when it runs, the writes of a        *)
(* transaction are buffered until its commit, an UPDATE takes the lock of   *)
(* its row until the transaction ends, and dropping a transaction that was  *)
(* not committed rolls it back.                                            *)
(*                                                                         *)
(* Time is counted in ticks of half an hour, so that the truncation of      *)
(* Duration::num_hours() is visible.                                       *)
(***************************************************************************)
EXTENDS Integers, Sequences, FiniteSets, TLC

(* ------------------------------ bounds --------------------------------- *)

\* open_pack / get_user_stats calls started in one behaviour
MaxCalls == 2
\* changes of the reward configuration made by the admin process
MaxCfgChanges == 1
\* longest mapping list handed to the pure reward generator in GenSpec
MaxPoolLen == 2
\* largest reward count handed to the pure reward generator in GenSpec
MaxCount == 2
\* advances of the clock in one behaviour
MaxTicks == 1
\* calls in the runs that open one pack type repeatedly
MaxOpenings == 3
\* get_reward_pool_for_pack calls in the runs that follow the cache lock
MaxLookups == 3

(* ------------------------- program constants --------------------------- *)

TicksPerHour == 2
CooldownHours == 24
StreakResetHours == 48
AdWindowHours == 1
InventoryValidityDays == 30
GuaranteeMinPrice == 299
LevelProgressGain == 10
LevelProgressCap == 100
LevelUpBonus == 100
DefaultDealCoins == 500
DefaultStreak == 1
DefaultLevel == 1

Hours(n) == n * TicksPerHour
Days(n) == n * 24 * TicksPerHour

\* chrono::Duration::num_hours: whole hours, truncated toward zero
num_hours(d) == IF d >= 0 THEN d \div TicksPerHour ELSE 0 - ((0 - d) \div TicksPerHour)

\* Option<T>: None is the empty tuple, Some(x) the one-element tuple
None == <<>>
Some(x) == <<x>>

\* Option::unwrap_or
unwrap_or(v, d) == IF v = None THEN d ELSE v[1]

Procs == {"p1", "p2"}

\* requests are handed to the first free task: p2 serves only while p1 has served
MayServe(p, pcs) == p = "p1" \/ pcs["p1"] # "idle"
Users == {"u1"}

(* --------------------- reward values: "+30" -> 30 ---------------------- *)

Digits == <<"0", "1", "2", "3", "4", "5", "6", "7", "8", "9">>

IsDigit(c) == \E i \in 1..10 : Digits[i] = c

DigitVal(c) == (CHOOSE i \in 1..10 : Digits[i] = c) - 1

\* str::trim_start_matches('+'): every leading '+' is removed
RECURSIVE trim_start_plus(_)
trim_start_plus(s) ==
    IF s # <<>> /\ Head(s) = "+" THEN trim_start_plus(Tail(s)) ELSE s

RECURSIVE DigitsValue(_, _)
DigitsValue(s, acc) ==
    IF s = <<>> THEN acc ELSE DigitsValue(Tail(s), acc * 10 + DigitVal(Head(s)))

\* str::parse::<i32>: an optional sign, then at least one digit and nothing else
parse_i32(s) ==
    LET body == IF s # <<>> /\ Head(s) \in {"+", "-"} THEN Tail(s) ELSE s
    IN  IF body = <<>> \/ \E i \in 1..Len(body) : ~IsDigit(body[i])
        THEN None
        ELSE IF s # <<>> /\ Head(s) = "-"
             THEN Some(0 - DigitsValue(body, 0))
             ELSE Some(DigitsValue(body, 0))

\* r.value.trim_start_matches('+').parse::<i32>().unwrap_or(0)
points_value(v) == unwrap_or(parse_i32(trim_start_plus(v)), 0)

(* ------------------------------ catalog -------------------------------- *)

Rarities == {"common", "rare", "epic", "legendary"}

\* reward_templates rows (read-only to the service)
RewardTemplates ==
    [t \in {"pts30", "pts5x", "coupon", "voucher", "retired"} |->
        CASE t = "pts30"   -> [id |-> t, type |-> "points", title |-> t, value |-> <<"+", "3", "0">>,
                               rarity |-> "common", validity_days |-> None, is_active |-> TRUE]
          [] t = "pts5x"   -> [id |-> t, type |-> "points", title |-> t, value |-> <<"5", "x">>,
                               rarity |-> "common", validity_days |-> None, is_active |-> TRUE]
          [] t = "coupon"  -> [id |-> t, type |-> "coupon", title |-> t, value |-> <<"2", "0">>,
                               rarity |-> "rare", validity_days |-> Some(7), is_active |-> TRUE]
          [] t = "voucher" -> [id |-> t, type |-> "voucher", title |-> t, value |-> <<"5", "0">>,
                               rarity |-> "epic", validity_days |-> None, is_active |-> TRUE]
          [] OTHER         -> [id |-> t, type |-> "coupon", title |-> t, value |-> <<"9">>,
                               rarity |-> "legendary", validity_days |-> Some(7), is_active |-> FALSE]]

PackIds == {"daily", "basic", "mega", "special", "legacy"}

\* pack_types rows
PackTypes ==
    [k \in PackIds |->
        CASE k = "daily"   -> [id |-> k, name |-> k, type |-> "free", price_coins |-> None,
                               min_rewards |-> 1, max_rewards |-> 1, is_active |-> TRUE]
          [] k = "basic"   -> [id |-> k, name |-> k, type |-> "premium", price_coins |-> Some(250),
                               min_rewards |-> 1, max_rewards |-> 1, is_active |-> TRUE]
          [] k = "mega"    -> [id |-> k, name |-> k, type |-> "premium", price_coins |-> Some(299),
                               min_rewards |-> 1, max_rewards |-> 2, is_active |-> TRUE]
          [] k = "special" -> [id |-> k, name |-> k, type |-> "special", price_coins |-> Some(200),
                               min_rewards |-> 0, max_rewards |-> 1, is_active |-> TRUE]
          [] OTHER         -> [id |-> k, name |-> k, type |-> "premium", price_coins |-> Some(50),
                               min_rewards |-> 1, max_rewards |-> 1, is_active |-> FALSE]]

CfgVersions == {1, 2}

Row(k, t, w) == [pack_type_id |-> k, reward_template_id |-> t, weight |-> w]

\* pack_reward_mappings rows under each version of the configuration
PackRewardMappings(version) ==
    IF version = 1
    THEN {Row("daily", "pts30", None),
          Row("basic", "pts30", Some(2)), Row("basic", "coupon", Some(1)),
          Row("mega", "pts30", Some(2)), Row("mega", "coupon", Some(1)), Row("mega", "retired", Some(5)),
          Row("special", "pts5x", Some(1))}
    ELSE {Row("daily", "pts30", Some(2)), Row("daily", "coupon", Some(1)),
          Row("basic", "pts30", Some(0)),
          Row("mega", "voucher", Some(0)),
          Row("special", "retired", Some(3))}

(* --------------------------- RewardPool -------------------------------- *)

\* ORDER BY prm.weight DESC: NULL weights sort first, equal weights in any order
OrderedDesc(s) ==
    \A i, j \in 1..Len(s) :
        i < j => \/ s[i].weight = None
                 \/ (s[j].weight # None /\ s[i].weight[1] >= s[j].weight[1])

\* the rows the mappings query of get_reward_pool_for_pack can return
mappings_query(rows, pack_type_id) ==
    LET hit == {r \in rows : /\ r.pack_type_id = pack_type_id
                             /\ RewardTemplates[r.reward_template_id].is_active}
        n   == Cardinality(hit)
    IN  {s \in [1..n -> hit] :
            /\ \A i, j \in 1..n : i # j => s[i] # s[j]
            /\ OrderedDesc(s)}

\* the loop of get_reward_pool_for_pack: cumulative_weight += weight.unwrap_or(1)
RECURSIVE weighted_rewards(_, _)
weighted_rewards(mappings, cumulative_weight) ==
    IF mappings = <<>> THEN <<>>
    ELSE LET m  == Head(mappings)
             cw == cumulative_weight + unwrap_or(m.weight, 1)
         IN  <<[template |-> RewardTemplates[m.reward_template_id],
                weight |-> unwrap_or(m.weight, 1),
                cumulative_weight |-> cw]>>
             \o weighted_rewards(Tail(mappings), cw)

\* RewardPool::get_by_rarity: the templates of one rarity, in pool order
RECURSIVE get_by_rarity_of(_, _)
get_by_rarity_of(rewards, tier) ==
    IF rewards = <<>> THEN <<>>
    ELSE (IF Head(rewards).template.rarity = tier THEN <<Head(rewards).template>> ELSE <<>>)
         \o get_by_rarity_of(Tail(rewards), tier)

\* RewardPool::new: the ordered rewards, the final accumulator and the rarity index
RewardPool_new(rewards) ==
    [rewards |-> rewards,
     total_weight |-> IF rewards = <<>> THEN 0 ELSE rewards[Len(rewards)].cumulative_weight,
     rarity_pools |-> [tier \in Rarities |-> get_by_rarity_of(rewards, tier)]]

get_by_rarity(pool, tier) == pool.rarity_pools[tier]

\* RewardPool::select_by_weight: the first entry whose cumulative weight is >= target
select_by_weight(pool, target) ==
    LET hits == {i \in 1..Len(pool.rewards) : pool.rewards[i].cumulative_weight >= target}
    IN  IF hits = {} THEN None
        ELSE Some(pool.rewards[CHOOSE i \in hits : \A j \in hits : i <= j].template)

\* the pool get_reward_pool_for_pack builds from one query result
build_pool(mappings) == RewardPool_new(weighted_rewards(mappings, 0))

(* ------------------------- reward generation --------------------------- *)

\* template_to_generated_reward; the random id and code text are left abstract
template_to_generated_reward(template, t) ==
    [type |-> template.type,
     title |-> template.title,
     value |-> template.value,
     code |-> IF template.type = "coupon" \/ template.type = "voucher" THEN Some("CODE") ELSE None,
     rarity |-> template.rarity,
     expires_at |-> IF template.type = "points" THEN None
                    ELSE IF template.validity_days = None THEN None
                    ELSE Some(t + Days(template.validity_days[1]))]

\* guarantee_applies with a strict price comparison
guarantee_applies_strict(pack_type) ==
    pack_type.type = "premium" /\ unwrap_or(pack_type.price_coins, 0) > GuaranteeMinPrice

\* does the guarantee branch of generate_rewards apply to this pack type
guarantee_applies(pack_type) ==
    pack_type.type = "premium" /\ unwrap_or(pack_type.price_coins, 0) >= GuaranteeMinPrice

\* rare, then epic, then legendary templates
guaranteed_pool(pool) ==
    get_by_rarity(pool, "rare") \o get_by_rarity(pool, "epic") \o get_by_rarity(pool, "legendary")

\* the reward lists the guarantee step can leave in `rewards`
guaranteed_rewards(pool, pack_type, t) ==
    IF guarantee_applies(pack_type) /\ guaranteed_pool(pool) # <<>>
    THEN {<<template_to_generated_reward(guaranteed_pool(pool)[idx], t)>> :
             idx \in 1..Len(guaranteed_pool(pool))}
    ELSE {<<>>}

\* fill_slot without the total_weight > 0 test, the target drawn from 0..=total_weight
fill_slot_unguarded(pool, t) ==
    {LET template == select_by_weight(pool, target_weight)
     IN  IF template = None THEN <<>> ELSE <<template_to_generated_reward(template[1], t)>> :
        target_weight \in 0..pool.total_weight}

\* one pass of the fill loop: nothing is pushed when total_weight is 0 or nothing is selected
fill_slot(pool, t) ==
    IF pool.total_weight > 0
    THEN {LET template == select_by_weight(pool, target_weight)
          IN  IF template = None THEN <<>> ELSE <<template_to_generated_reward(template[1], t)>> :
             target_weight \in 1..pool.total_weight}
    ELSE {<<>>}

\* for _ in 0..remaining_count: an empty range when remaining_count <= 0
RECURSIVE fill_slots(_, _, _, _)
fill_slots(rewards, remaining_count, pool, t) ==
    IF remaining_count <= 0 THEN {rewards}
    ELSE UNION {fill_slots(rewards \o r, remaining_count - 1, pool, t) : r \in fill_slot(pool, t)}

\* generate_rewards: every reward list the call can return
generate_rewards(pool, count, pack_type, t) ==
    UNION {fill_slots(g, count - Len(g), pool, t) : g \in guaranteed_rewards(pool, pack_type, t)}

\* coin_bonus of open_pack: the parsed values of the points rewards
RECURSIVE coin_bonus(_)
coin_bonus(rewards) ==
    IF rewards = <<>> THEN 0
    ELSE (IF Head(rewards).type = "points" THEN points_value(Head(rewards).value) ELSE 0)
         + coin_bonus(Tail(rewards))

(* ----------------------- stats state machine --------------------------- *)

\* the free-pack cooldown test of open_pack
on_cooldown(user_stats, t) ==
    /\ user_stats # None
    /\ user_stats[1].last_daily_claim # None
    /\ t - user_stats[1].last_daily_claim[1] < Hours(CooldownHours)

\* insufficient_coins with the comparison off by one
insufficient_coins_le(pack_type, user_stats) ==
    /\ pack_type.price_coins # None
    /\ \/ user_stats = None
       \/ user_stats[1].deal_coins <= pack_type.price_coins[1]

\* insufficient_coins that refuses only a user without a stats row
insufficient_coins_unchecked(pack_type, user_stats) ==
    pack_type.price_coins # None /\ user_stats = None

\* the balance test of open_pack for a non-free pack type with a price
insufficient_coins(pack_type, user_stats) ==
    /\ pack_type.price_coins # None
    /\ \/ user_stats = None
       \/ user_stats[1].deal_coins < pack_type.price_coins[1]

\* recent_ad without the one-hour window
recent_ad_any_age(interaction, t) == interaction # None

\* completed_at > NOW() - INTERVAL '1 hour'
recent_ad(interaction, t) ==
    interaction # None /\ interaction[1] > t - Hours(AdWindowHours)

pack_cost(pack_type) ==
    IF pack_type.type = "premium" THEN unwrap_or(pack_type.price_coins, 0) ELSE 0

\* the streak update of open_pack for a free pack
next_streak(stats, t) ==
    IF stats.last_daily_claim # None
    THEN LET hours_diff == num_hours(t - stats.last_daily_claim[1])
         IN  IF hours_diff >= CooldownHours /\ hours_diff < StreakResetHours
             THEN stats.daily_streak + 1
             ELSE IF hours_diff >= StreakResetHours THEN 1 ELSE stats.daily_streak
    ELSE 1

\* the row open_pack writes back: coins, packs, level, progress, streak, last claim
advance(stats, pack_type, rewards, t) ==
    LET coins    == stats.deal_coins + coin_bonus(rewards) - pack_cost(pack_type)
        progress == stats.level_progress + LevelProgressGain
        levelup  == progress >= LevelProgressCap
        free     == pack_type.type = "free"
    IN  [deal_coins         |-> IF levelup THEN coins + LevelUpBonus ELSE coins,
         total_packs_opened |-> stats.total_packs_opened + 1,
         level              |-> IF levelup THEN stats.level + 1 ELSE stats.level,
         level_progress     |-> IF levelup THEN 0 ELSE progress,
         daily_streak       |-> IF free THEN next_streak(stats, t) ELSE stats.daily_streak,
         last_daily_claim   |-> IF free THEN Some(t) ELSE stats.last_daily_claim]

\* the row get_user_stats inserts for a new user
default_stats ==
    [deal_coins |-> DefaultDealCoins, total_packs_opened |-> 0, level |-> DefaultLevel,
     level_progress |-> 0, daily_streak |-> DefaultStreak, last_daily_claim |-> None]

\* the claim-availability projection of get_user_stats
user_stats_projection(stats, t) ==
    LET can_claim_daily == \/ stats.last_daily_claim = None
                           \/ t - stats.last_daily_claim[1] >= Hours(CooldownHours)
    IN  [deal_coins         |-> stats.deal_coins,
         daily_streak       |-> stats.daily_streak,
         total_packs_opened |-> stats.total_packs_opened,
         level              |-> stats.level,
         level_progress     |-> stats.level_progress,
         can_claim_daily    |-> can_claim_daily,
         next_daily_claim   |-> IF can_claim_daily THEN None
                                ELSE Some(stats.last_daily_claim[1] + Hours(CooldownHours))]

\* the UserStatsResponse open_pack assembles after the commit
stats_response(updated_stats, pack_type, t) ==
    [deal_coins         |-> updated_stats.deal_coins,
     daily_streak       |-> updated_stats.daily_streak,
     total_packs_opened |-> updated_stats.total_packs_opened,
     level              |-> updated_stats.level,
     level_progress     |-> updated_stats.level_progress,
     can_claim_daily    |-> \/ pack_type.type = "free"
                            \/ updated_stats.last_daily_claim = None
                            \/ t - updated_stats.last_daily_claim[1] >= Hours(CooldownHours),
     next_daily_claim   |-> IF pack_type.type = "free" THEN Some(t + Hours(CooldownHours))
                            ELSE IF updated_stats.last_daily_claim = None THEN None
                            ELSE Some(updated_stats.last_daily_claim[1] + Hours(CooldownHours))]

\* the user_rewards row open_pack inserts for one generated reward
inventory_row(user_id, pack_history_id, reward, source, slot, t) ==
    [user_id |-> user_id, pack_history_id |-> pack_history_id, type |-> reward.type,
     title |-> reward.title, value |-> reward.value, code |-> reward.code,
     rarity |-> reward.rarity, source |-> source, slot |-> slot,
     expires_at |-> IF reward.type = "points" THEN None
                    ELSE Some(t + Days(InventoryValidityDays))]

(* ------------------------------- state --------------------------------- *)

VARIABLES
    now,                  \* the clock, in ticks
    user_lootpack_stats,  \* committed stats row of each user (None: no row)
    user_pack_history,    \* committed pack-history rows
    user_rewards,         \* committed inventory rows
    user_ad_interactions, \* completed_at of the latest completed daily_pack_ad interaction
    cfg,                  \* version of the reward configuration in storage
    cfg_changes,          \* configuration changes made so far
    reward_cache,         \* LootpackService::reward_cache
    cache_lock,           \* holders of the reader/writer lock around reward_cache
    row_lock,             \* holder of the row lock of each stats row
    calls,                \* calls started so far
    ticks,                \* clock advances so far
    pc,                   \* position of each request task
    frame,                \* locals of each request task
    base_stats,           \* the stats row of each user as first stored
    commit_log,           \* the committed pack openings, in commit order
    pool_log,             \* the finished pool lookups, in order of return
    gen                   \* input and output of one generate_rewards call (GenSpec)

vars == <<now, user_lootpack_stats, user_pack_history, user_rewards, user_ad_interactions,
          cfg, cfg_changes, reward_cache, cache_lock, row_lock, calls, ticks, pc, frame, base_stats,
          commit_log, pool_log, gen>>

logs == <<base_stats, commit_log, pool_log, gen>>

db == <<user_lootpack_stats, user_pack_history, user_rewards>>

env == <<now, ticks, user_ad_interactions, cfg, cfg_changes>>

\* RwLock::new: no reader and no writer
NoLock == [readers |-> {}, writer |-> None]

EmptyTx == [history |-> None, rewards |-> <<>>, stats |-> None]

IdleFrame ==
    [call_id |-> 0, user_id |-> "", pack_type_id |-> "", pack_type |-> None,
     user_stats |-> None, recent_daily_ad |-> None, hit |-> FALSE, queried |-> FALSE,
     began |-> [at |-> 0, changes |-> 0],
     built |-> None, reward_pool |-> None, num_rewards |-> 0, generated_rewards |-> <<>>,
     advanced_at |-> 0, updated_stats |-> None, tx |-> EmptyTx, result |-> "", failed_at |-> "",
     response |-> None]

NoGen == [phase |-> "off"]

\* stats rows a user may hold when the service starts
InitialStats ==
    {[deal_coins |-> c, total_packs_opened |-> 0, level |-> 1, level_progress |-> g,
      daily_streak |-> 1, last_daily_claim |-> l] :
        <<c, g, l>> \in {<<300, 0, None>>, <<200, 90, Some(0 - Hours(30))>>}}

\* lengths of time the clock may advance by in one step
TickSteps == {Hours(CooldownHours)}

\* the service starts over stored stats rows drawn from `rows`
InitWith(rows) ==
    /\ now = 0
    /\ user_lootpack_stats \in [Users -> {None} \cup {Some(r) : r \in rows}]
    /\ user_pack_history = {}
    /\ user_rewards = {}
    /\ user_ad_interactions = [u \in Users |-> None]
    /\ cfg = 1
    /\ cfg_changes = 0
    /\ reward_cache = [k \in PackIds |-> None]
    /\ cache_lock = NoLock
    /\ row_lock = [u \in Users |-> None]
    /\ calls = 0
    /\ ticks = 0
    /\ pc = [p \in Procs |-> "idle"]
    /\ frame = [p \in Procs |-> IdleFrame]
    /\ base_stats = user_lootpack_stats
    /\ commit_log = <<>>
    /\ pool_log = <<>>

InitService == InitWith(InitialStats)

Init == InitService /\ gen = NoGen

(* ---------------------------- environment ------------------------------ *)

Tick ==
    /\ ticks < MaxTicks
    /\ \E d \in TickSteps : now' = now + d
    /\ ticks' = ticks + 1
    /\ UNCHANGED <<db, user_ad_interactions, cfg, cfg_changes, reward_cache, cache_lock, row_lock, calls,
                   pc, frame, logs>>

\* the ad subsystem records a completed daily_pack_ad interaction
CompleteAd(u) ==
    /\ user_ad_interactions[u] # Some(now)
    /\ user_ad_interactions' = [user_ad_interactions EXCEPT ![u] = Some(now)]
    /\ UNCHANGED <<now, ticks, db, cfg, cfg_changes, reward_cache, cache_lock, row_lock, calls, pc, frame,
                   logs>>

\* the admin process rewrites pack_reward_mappings
ChangeConfig ==
    /\ cfg_changes < MaxCfgChanges
    /\ \E v \in CfgVersions \ {cfg} : cfg' = v
    /\ cfg_changes' = cfg_changes + 1
    /\ UNCHANGED <<now, ticks, db, user_ad_interactions, reward_cache, cache_lock, row_lock, calls, pc,
                   frame, logs>>

(* --------------------------- get_user_stats ---------------------------- *)

\* the read of an existing row changes nothing; a missing row is inserted with the defaults
get_user_stats(u) ==
    /\ user_lootpack_stats[u] = None
    /\ user_lootpack_stats' = [user_lootpack_stats EXCEPT ![u] = Some(default_stats)]
    /\ base_stats' = [base_stats EXCEPT ![u] = Some(default_stats)]
    /\ UNCHANGED <<env, user_pack_history, user_rewards, reward_cache, cache_lock, row_lock, calls, pc,
                   frame, commit_log, pool_log, gen>>

(* ------------------------------ open_pack ------------------------------ *)

RequestIds == PackIds \cup {"unknown"}

\* SELECT ... FROM pack_types WHERE id = $1 AND is_active = true
select_pack_type(pack_type_id) ==
    IF pack_type_id \in PackIds /\ PackTypes[pack_type_id].is_active
    THEN Some(PackTypes[pack_type_id])
    ELSE None

\* the awaits of open_pack that run a statement against the store
StoragePoints ==
    {"load_stats", "check_ad", "query_mappings", "insert_history",
     "insert_reward", "update_stats", "commit"}

\* the three tables open_pack writes
Store == [stats |-> user_lootpack_stats, history |-> user_pack_history,
          rewards |-> user_rewards]

\* tx.commit(): the buffered rows become visible together
commit_tx(store, user_id, tx) ==
    [stats   |-> IF tx.stats = None THEN store.stats
                 ELSE [store.stats EXCEPT ![user_id] = tx.stats],
     history |-> IF tx.history = None THEN store.history
                 ELSE store.history \cup {tx.history[1]},
     rewards |-> store.rewards \cup {tx.rewards[i] : i \in 1..Len(tx.rewards)}]

\* drop_tx as it would be if the statements ran outside the transaction
drop_tx_keeps_writes(store, user_id, tx) == commit_tx(store, user_id, tx)

\* an early return drops the transaction: nothing it wrote reaches the tables
drop_tx(store, user_id, tx) == store

StoreBecomes(store) ==
    /\ user_lootpack_stats' = store.stats
    /\ user_pack_history' = store.history
    /\ user_rewards' = store.rewards

\* the call returns res: the transaction is dropped, which rolls it back
Finish(p, f, res) ==
    /\ StoreBecomes(drop_tx(Store, f.user_id, f.tx))
    /\ frame' = [frame EXCEPT ![p] = [f EXCEPT !.result = res, !.failed_at = pc[p],
                                               !.tx = EmptyTx]]
    /\ pc' = [pc EXCEPT ![p] = "done"]
    /\ row_lock' = [u \in Users |-> IF row_lock[u] = Some(p) THEN None ELSE row_lock[u]]

Goto(p, f, label) ==
    /\ UNCHANGED db
    /\ frame' = [frame EXCEPT ![p] = f]
    /\ pc' = [pc EXCEPT ![p] = label]
    /\ UNCHANGED row_lock

\* begin_frame with the history INSERT issued ahead of validation
begin_frame_history_first(call_id, user_id, pack_type_id) ==
    [IdleFrame EXCEPT !.call_id = call_id, !.user_id = user_id, !.pack_type_id = pack_type_id,
                      !.tx.history = Some([id |-> call_id, user_id |-> user_id,
                                           pack_type_id |-> pack_type_id, rewards_count |-> 0])]

\* the locals of a call whose transaction has just begun: nothing is written yet
begin_frame(call_id, user_id, pack_type_id) ==
    [IdleFrame EXCEPT !.call_id = call_id, !.user_id = user_id, !.pack_type_id = pack_type_id]

\* a request for open_pack(user_id, pack_type_id) arrives: its transaction begins and the
\* pack type is loaded (pack_types does not change while the service runs)
begin(p, u, k) ==
    /\ pc[p] \in {"idle", "done"}
    /\ MayServe(p, pc)
    /\ calls' = calls + 1
    /\ LET f         == begin_frame(calls + 1, u, k)
           pack_type == select_pack_type(k)
       IN  IF pack_type = None
           THEN Finish(p, f, "NotFound")
           ELSE Goto(p, [f EXCEPT !.pack_type = pack_type], "load_stats")
    /\ UNCHANGED <<env, reward_cache, cache_lock, logs>>

open_pack(p, u, k) == calls < MaxCalls /\ begin(p, u, k)

\* the stats SELECT, then the checks that need no further statement
LoadStats(p) ==
    /\ pc[p] = "load_stats"
    /\ LET f         == [frame[p] EXCEPT !.user_stats = user_lootpack_stats[frame[p].user_id]]
           pack_type == f.pack_type[1]
       IN  IF pack_type.type = "free"
           THEN IF on_cooldown(f.user_stats, now)
                THEN Finish(p, f, "Cooldown")
                ELSE Goto(p, f, "check_ad")
           ELSE IF insufficient_coins(pack_type, f.user_stats)
                THEN Finish(p, f, "Insufficient")
                ELSE Goto(p, f, "cache_read")
    /\ UNCHANGED <<env, reward_cache, cache_lock, calls, logs>>

CheckAd(p) ==
    /\ pc[p] = "check_ad"
    /\ LET ad == IF recent_ad(user_ad_interactions[frame[p].user_id], now)
                 THEN user_ad_interactions[frame[p].user_id] ELSE None
           f  == [frame[p] EXCEPT !.recent_daily_ad = ad]
       IN  IF ad = None
           THEN Finish(p, f, "AdRequired")
           ELSE Goto(p, f, "cache_read")
    /\ UNCHANGED <<env, reward_cache, cache_lock, calls, logs>>

\* back in open_pack with the pool: num_rewards is drawn from min_rewards..=max_rewards and
\* the rewards are generated, then the history INSERT is issued
Roll(p, f) ==
    LET pack_type == f.pack_type[1]
    IN  \E num_rewards \in pack_type.min_rewards..pack_type.max_rewards :
        \E rewards \in generate_rewards(f.reward_pool[1], num_rewards, pack_type, now) :
           Goto(p, [f EXCEPT !.num_rewards = num_rewards, !.generated_rewards = rewards],
                "insert_history")

\* one finished get_reward_pool_for_pack call
PoolReturn(f, began) ==
    [call_id |-> f.call_id, pack_type_id |-> f.pack_type_id, pool |-> f.reward_pool[1],
     queried |-> f.queried, began |-> began, changes |-> cfg_changes]

\* get_reward_pool_for_pack, under the read lock: a hit returns the cached pool
CacheRead(p) ==
    /\ pc[p] = "cache_read"
    /\ LET cached == reward_cache[frame[p].pack_type_id]
           f      == [frame[p] EXCEPT !.began = [at |-> Len(pool_log), changes |-> cfg_changes]]
       IN  IF cached # None
           THEN /\ Roll(p, [f EXCEPT !.hit = TRUE, !.reward_pool = cached])
                /\ pool_log' = Append(pool_log,
                                      PoolReturn([f EXCEPT !.reward_pool = cached], f.began))
           ELSE /\ Goto(p, f, "query_mappings")
                /\ UNCHANGED pool_log
    /\ UNCHANGED <<env, reward_cache, cache_lock, calls, base_stats, commit_log, gen>>

\* get_reward_pool_for_pack, no lock held: query the mappings and build the pool
QueryMappings(p) ==
    /\ pc[p] = "query_mappings"
    /\ \E mappings \in mappings_query(PackRewardMappings(cfg), frame[p].pack_type_id) :
          Goto(p, [frame[p] EXCEPT !.queried = TRUE, !.built = Some(build_pool(mappings))],
               "cache_insert")
    /\ UNCHANGED <<env, reward_cache, cache_lock, calls, logs>>

\* cache_insert that leaves the map as it was
cache_insert_skipped(cache, pack_type_id, pool) == cache

\* the map after cache.insert(pack_type_id, pool.clone())
cache_insert(cache, pack_type_id, pool) == [cache EXCEPT ![pack_type_id] = Some(pool)]

\* get_reward_pool_for_pack, under the write lock: insert the built pool and return it
CacheInsert(p) ==
    /\ pc[p] = "cache_insert"
    /\ reward_cache' = cache_insert(reward_cache, frame[p].pack_type_id, frame[p].built[1])
    /\ LET f == [frame[p] EXCEPT !.reward_pool = frame[p].built]
       IN  /\ Roll(p, f)
           /\ pool_log' = Append(pool_log, PoolReturn(f, f.began))
    /\ UNCHANGED <<env, cache_lock, calls, base_stats, commit_log, gen>>

\* after the last INSERT: the new stats are computed and the UPDATE is issued, or the
\* call gives up because no stats row was loaded
PrepareStats(p, f) ==
    IF f.user_stats = None
    THEN Finish(p, f, "InternalError")
    ELSE Goto(p, [f EXCEPT !.advanced_at = now,
                           !.updated_stats =
                     Some(advance(f.user_stats[1], f.pack_type[1], f.generated_rewards, now))],
              "update_stats")

\* the pack-history row of one opening
history_row(f) ==
    [id |-> f.call_id, user_id |-> f.user_id, pack_type_id |-> f.pack_type_id,
     rewards_count |-> Len(f.generated_rewards)]

InsertHistory(p) ==
    /\ pc[p] = "insert_history"
    /\ LET f == [frame[p] EXCEPT !.tx.history = Some(history_row(frame[p]))]
       IN  IF f.generated_rewards = <<>>
           THEN PrepareStats(p, f)
           ELSE Goto(p, f, "insert_reward")
    /\ UNCHANGED <<env, reward_cache, cache_lock, calls, logs>>

InsertReward(p) ==
    /\ pc[p] = "insert_reward"
    /\ LET slot == Len(frame[p].tx.rewards) + 1
           row  == inventory_row(frame[p].user_id, frame[p].tx.history[1].id,
                                 frame[p].generated_rewards[slot],
                                 frame[p].pack_type[1].name, slot, now)
           f    == [frame[p] EXCEPT !.tx.rewards = Append(@, row)]
       IN  IF slot = Len(f.generated_rewards)
           THEN PrepareStats(p, f)
           ELSE Goto(p, f, "insert_reward")
    /\ UNCHANGED <<env, reward_cache, cache_lock, calls, logs>>

\* the UPDATE of the stats row: it waits while another transaction holds the row
UpdateStats(p) ==
    /\ pc[p] = "update_stats"
    /\ row_lock[frame[p].user_id] = None
    /\ row_lock' = [row_lock EXCEPT ![frame[p].user_id] = Some(p)]
    /\ frame' = [frame EXCEPT ![p].tx.stats = frame[p].updated_stats]
    /\ pc' = [pc EXCEPT ![p] = "commit"]
    /\ UNCHANGED <<env, db, reward_cache, cache_lock, calls, logs>>

\* tx.commit(), then the response is assembled
Commit(p) ==
    /\ pc[p] = "commit"
    /\ LET f == frame[p]
       IN  /\ StoreBecomes(commit_tx(Store, f.user_id, f.tx))
           /\ commit_log' = Append(commit_log,
                  [call_id |-> f.call_id, user_id |-> f.user_id, pack_type |-> f.pack_type[1],
                   rewards |-> f.generated_rewards, read |-> f.user_stats[1],
                   written |-> f.updated_stats[1], at |-> f.advanced_at])
           /\ frame' = [frame EXCEPT ![p] =
                  [f EXCEPT !.result = "Ok", !.tx = EmptyTx,
                            !.response = Some([rewards |-> f.generated_rewards,
                                               updated_stats |->
                                                  stats_response(f.updated_stats[1],
                                                                 f.pack_type[1], now)])]]
    /\ pc' = [pc EXCEPT ![p] = "done"]
    /\ row_lock' = [u \in Users |-> IF row_lock[u] = Some(p) THEN None ELSE row_lock[u]]
    /\ UNCHANGED <<env, reward_cache, cache_lock, calls, base_stats, pool_log, gen>>

\* a statement of the call, or its commit, fails: the error is returned
StorageFail(p) ==
    /\ pc[p] \in StoragePoints
    /\ Finish(p, frame[p], "StorageError")
    /\ UNCHANGED <<env, reward_cache, cache_lock, calls, logs>>

Next ==
    \/ Tick
    \/ \E u \in Users : CompleteAd(u)
    \/ \E u \in Users : get_user_stats(u)
    \/ \E p \in Procs, u \in Users, k \in RequestIds : open_pack(p, u, k)
    \/ \E p \in Procs : LoadStats(p)
    \/ \E p \in Procs : CheckAd(p)
    \/ \E p \in Procs : CacheRead(p)
    \/ \E p \in Procs : QueryMappings(p)
    \/ \E p \in Procs : CacheInsert(p)
    \/ \E p \in Procs : InsertHistory(p)
    \/ \E p \in Procs : InsertReward(p)
    \/ \E p \in Procs : UpdateStats(p)
    \/ \E p \in Procs : Commit(p)
    \/ \E p \in Procs : StorageFail(p)

Spec == Init /\ [][Next]_vars

(* ---------------- the cache under configuration changes ---------------- *)

NextCache ==
    \/ ChangeConfig
    \/ \E u \in Users : get_user_stats(u)
    \/ \E p \in Procs, u \in Users, k \in RequestIds : open_pack(p, u, k)
    \/ \E p \in Procs : LoadStats(p)
    \/ \E p \in Procs : CheckAd(p)
    \/ \E p \in Procs : CacheRead(p)
    \/ \E p \in Procs : QueryMappings(p)
    \/ \E p \in Procs : CacheInsert(p)
    \/ \E p \in Procs : InsertHistory(p)
    \/ \E p \in Procs : InsertReward(p)
    \/ \E p \in Procs : UpdateStats(p)
    \/ \E p \in Procs : Commit(p)
    \/ \E p \in Procs : StorageFail(p)

CacheSpec == Init /\ [][NextCache]_vars

(* --------------- repeated openings of one non-free pack ---------------- *)

open_special(p, u) == calls < MaxOpenings /\ begin(p, u, "special")

NextRepeat ==
    \/ \E p \in Procs, u \in Users : open_special(p, u)
    \/ \E p \in Procs : LoadStats(p)
    \/ \E p \in Procs : CacheRead(p)
    \/ \E p \in Procs : QueryMappings(p)
    \/ \E p \in Procs : CacheInsert(p)
    \/ \E p \in Procs : InsertHistory(p)
    \/ \E p \in Procs : InsertReward(p)
    \/ \E p \in Procs : UpdateStats(p)
    \/ \E p \in Procs : Commit(p)

\* stats rows two openings short of the next level
NearLevelUp ==
    {[deal_coins |-> 300, total_packs_opened |-> 8, level |-> 1,
      level_progress |-> LevelProgressCap - 2 * LevelProgressGain,
      daily_streak |-> 1, last_daily_claim |-> None]}

RepeatInit == InitWith(InitialStats \cup NearLevelUp) /\ gen = NoGen

RepeatSpec == RepeatInit /\ [][NextRepeat]_vars

(* ------------- get_reward_pool_for_pack, lock by lock ------------------ *)

\* RwLock::read resolves while no writer holds the lock
acquire_read(lock, p) == [lock EXCEPT !.readers = @ \cup {p}]

\* release_read with the read guard kept alive past its block
release_read_kept(lock, p) == lock

\* the read guard is dropped at the end of its block, or at the return inside it
release_read(lock, p) == [lock EXCEPT !.readers = @ \ {p}]

\* RwLock::write resolves while nobody holds the lock
acquire_write(lock, p) == [lock EXCEPT !.writer = Some(p)]

\* the write guard is dropped at the end of its block
release_write(lock, p) == [lock EXCEPT !.writer = None]

\* the pack types whose pool open_pack asks for
ActiveIds == {k \in PackIds : PackTypes[k].is_active}

\* a call of get_reward_pool_for_pack(pack_type_id) arrives
get_reward_pool_for_pack(p, k) ==
    /\ pc[p] \in {"idle", "done"}
    /\ MayServe(p, pc)
    /\ calls < MaxLookups
    /\ calls' = calls + 1
    /\ frame' = [frame EXCEPT ![p] = begin_frame(calls + 1, "", k)]
    /\ pc' = [pc EXCEPT ![p] = "read_wait"]
    /\ UNCHANGED <<env, db, reward_cache, cache_lock, row_lock, logs>>

\* self.reward_cache.read().await
ReadLock(p) ==
    /\ pc[p] = "read_wait"
    /\ cache_lock.writer = None
    /\ cache_lock' = acquire_read(cache_lock, p)
    /\ pc' = [pc EXCEPT ![p] = "read_held"]
    /\ UNCHANGED <<env, db, reward_cache, row_lock, calls, frame, logs>>

\* cache.get(&pack_type_id): a hit returns the clone, a miss leaves the block
ReadCache(p) ==
    /\ pc[p] = "read_held"
    /\ LET cached == reward_cache[frame[p].pack_type_id]
       IN  IF cached # None
           THEN /\ frame' = [frame EXCEPT ![p].hit = TRUE, ![p].reward_pool = cached]
                /\ pc' = [pc EXCEPT ![p] = "done"]
           ELSE /\ frame' = frame
                /\ pc' = [pc EXCEPT ![p] = "query"]
    /\ cache_lock' = release_read(cache_lock, p)
    /\ UNCHANGED <<env, db, reward_cache, row_lock, calls, logs>>

\* the mappings query is in flight; its rows arrive and the pool is built
RunQuery(p) ==
    /\ pc[p] = "query"
    /\ \E mappings \in mappings_query(PackRewardMappings(cfg), frame[p].pack_type_id) :
          frame' = [frame EXCEPT ![p].queried = TRUE, ![p].built = Some(build_pool(mappings))]
    /\ pc' = [pc EXCEPT ![p] = "write_wait"]
    /\ UNCHANGED <<env, db, reward_cache, cache_lock, row_lock, calls, logs>>

\* self.reward_cache.write().await
WriteLock(p) ==
    /\ pc[p] = "write_wait"
    /\ cache_lock.writer = None
    /\ cache_lock.readers = {}
    /\ cache_lock' = acquire_write(cache_lock, p)
    /\ pc' = [pc EXCEPT ![p] = "write_held"]
    /\ UNCHANGED <<env, db, reward_cache, row_lock, calls, frame, logs>>

\* cache.insert(pack_type_id, pool.clone()), then the pool is returned
WriteCache(p) ==
    /\ pc[p] = "write_held"
    /\ reward_cache' = cache_insert(reward_cache, frame[p].pack_type_id, frame[p].built[1])
    /\ frame' = [frame EXCEPT ![p].reward_pool = frame[p].built]
    /\ cache_lock' = release_write(cache_lock, p)
    /\ pc' = [pc EXCEPT ![p] = "done"]
    /\ UNCHANGED <<env, db, row_lock, calls, logs>>

NextLock ==
    \/ \E p \in Procs, k \in ActiveIds : get_reward_pool_for_pack(p, k)
    \/ \E p \in Procs : ReadLock(p)
    \/ \E p \in Procs : ReadCache(p)
    \/ \E p \in Procs : RunQuery(p)
    \/ \E p \in Procs : WriteLock(p)
    \/ \E p \in Procs : WriteCache(p)

LockSpec == Init /\ [][NextLock]_vars

(* ------------------- generate_rewards on its own ----------------------- *)

GenRows ==
    {Row("mega", t, w) : t \in {"pts30", "coupon", "voucher"}, w \in {None, Some(0), Some(2), Some(0 - 1)}}

\* the query results the generator's pool may be built from
GenMappings ==
    UNION {mappings_query(rows, "mega") :
              rows \in {r \in SUBSET GenRows : Cardinality(r) <= MaxPoolLen}}

GenPackTypes ==
    {[id |-> "mega", name |-> "mega", type |-> ty, price_coins |-> pr,
      min_rewards |-> 0, max_rewards |-> MaxCount, is_active |-> TRUE] :
        ty \in {"free", "premium", "special"},
        pr \in {None, Some(GuaranteeMinPrice - 1), Some(GuaranteeMinPrice)}}

GenInit ==
    /\ InitService
    /\ gen \in [phase : {"mappings"}, mappings : GenMappings, pool : {build_pool(<<>>)},
                 count : 0..MaxCount, pack_type : GenPackTypes, rewards : {<<>>}]

\* the pool is built from the rows the mappings query returned
Build ==
    /\ gen.phase = "mappings"
    /\ gen' = [gen EXCEPT !.phase = "input", !.pool = build_pool(gen.mappings)]
    /\ UNCHANGED <<env, db, reward_cache, cache_lock, row_lock, calls, pc, frame, base_stats, commit_log,
                   pool_log>>

Generate ==
    /\ gen.phase = "input"
    /\ \E rewards \in generate_rewards(gen.pool, gen.count, gen.pack_type, now) :
          gen' = [gen EXCEPT !.phase = "output", !.rewards = rewards]
    /\ UNCHANGED <<env, db, reward_cache, cache_lock, row_lock, calls, pc, frame, base_stats, commit_log,
                   pool_log>>

GenNext == Build \/ Generate

GenSpec == GenInit /\ [][GenNext]_vars

(* ------------------------------ properties ----------------------------- *)

Max(S) == CHOOSE x \in S : \A y \in S : y <= x

LoggedIds == {commit_log[i].call_id : i \in DOMAIN commit_log}

CommitsOf(u) == {i \in DOMAIN commit_log : commit_log[i].user_id = u}

\* the stats row the committed openings of u left behind
LastWritten(u) ==
    IF CommitsOf(u) = {} THEN base_stats[u] ELSE Some(commit_log[Max(CommitsOf(u))].written)

InventoryOf(id) == {r \in user_rewards : r.pack_history_id = id}

\* C1: open_pack is atomic. The tables hold a pack-history row, inventory rows and a
\* stats write of a call exactly when that call committed: a call that returned an error
\* (or is still running) has left no history row, no inventory row and no stats change,
\* and a committed call has left its history row and all of its inventory rows.
C1_Atomicity ==
    /\ \A h \in user_pack_history : h.id \in LoggedIds
    /\ \A r \in user_rewards : r.pack_history_id \in LoggedIds
    /\ \A u \in Users : user_lootpack_stats[u] = LastWritten(u)
    /\ \A i \in DOMAIN commit_log :
          /\ \E h \in user_pack_history :
                h.id = commit_log[i].call_id /\ h.rewards_count = Len(commit_log[i].rewards)
          /\ Cardinality(InventoryOf(commit_log[i].call_id)) = Len(commit_log[i].rewards)
    /\ \A p \in Procs : frame[p].result # "Ok" => frame[p].call_id \notin LoggedIds

\* a call failed at its commit after buffering a history row and inventory rows
C1_Witness ==
    \E p \in Procs :
        /\ pc[p] = "done"
        /\ frame[p].result = "StorageError"
        /\ frame[p].failed_at = "commit"
        /\ frame[p].generated_rewards # <<>>

\* every stats row reachable from s by applying the openings `left` one after the other
RECURSIVE SerialResults(_, _)
SerialResults(s, left) ==
    IF left = {} THEN {s}
    ELSE UNION {SerialResults(advance(s, commit_log[i].pack_type, commit_log[i].rewards,
                                      commit_log[i].at), left \ {i}) : i \in left}

\* C2: the committed openings of one user are serialized. The stats row equals the result
\* of applying the stats transitions of the user's committed openings one after the other
\* in some order.
C2_Serialized ==
    \A u \in Users :
        CommitsOf(u) # {} =>
            user_lootpack_stats[u][1] \in SerialResults(base_stats[u][1], CommitsOf(u))

PricedNonFree(pack_type) == pack_type.type # "free" /\ pack_type.price_coins # None

\* the step in which p's stats are loaded and the balance is checked
BalanceGateStep(p) ==
    LET pack_type == frame[p].pack_type[1]
        row       == user_lootpack_stats[frame[p].user_id]
        short     == row = None \/ row[1].deal_coins < pack_type.price_coins[1]
    IN  (/\ pc[p] = "load_stats"
         /\ pc'[p] # "load_stats"
         /\ frame'[p].result # "StorageError"
         /\ PricedNonFree(pack_type))
        => /\ (frame'[p].result = "Insufficient") <=> short
           /\ short => (pc'[p] = "done" /\ db' = db /\ frame'[p].tx = EmptyTx)
           /\ ~short => pc'[p] = "cache_read"

\* C3: balance gate. For an active non-free pack type with a price, validation fails with
\* the insufficient-balance BadRequest exactly when the user's stats row is absent or its
\* deal_coins is below price_coins; the failing call persists nothing, and with
\* deal_coins >= price_coins the call goes on to resolve the pool. No other call ends
\* with that error.
C3_BalanceGate ==
    /\ [][\A p \in Procs : BalanceGateStep(p)]_vars
    /\ [](\A p \in Procs :
            frame[p].result = "Insufficient" =>
                /\ PricedNonFree(frame[p].pack_type[1])
                /\ frame[p].call_id \notin LoggedIds)

\* the scenario of the specification: 200 coins, a pack priced 250
C3_Witness ==
    \E p \in Procs :
        /\ frame[p].result = "Insufficient"
        /\ frame[p].user_stats # None
        /\ frame[p].user_stats[1].deal_coins = 200
        /\ frame[p].pack_type[1].price_coins = Some(250)

\* C4: balance law. A committed opening of a priced pack that passed the balance gate and
\* caused no level-up leaves, and returns, deal_coins' = deal_coins - price_coins + b,
\* with b the sum of the rolled points rewards.
C4_BalanceLaw ==
    /\ \A i \in DOMAIN commit_log :
          LET e == commit_log[i]
          IN  (/\ PricedNonFree(e.pack_type)
               /\ e.read.level_progress + LevelProgressGain < LevelProgressCap)
              => e.written.deal_coins
                   = e.read.deal_coins - e.pack_type.price_coins[1] + coin_bonus(e.rewards)
    /\ \A p \in Procs :
          (/\ frame[p].result = "Ok"
           /\ PricedNonFree(frame[p].pack_type[1])
           /\ frame[p].user_stats[1].level_progress + LevelProgressGain < LevelProgressCap)
          => frame[p].response[1].updated_stats.deal_coins
               = frame[p].user_stats[1].deal_coins - frame[p].pack_type[1].price_coins[1]
                 + coin_bonus(frame[p].generated_rewards)

\* C5: free-pack cooldown. Any two committed free-pack openings of one user are at least
\* 24 hours apart.
C5_Cooldown ==
    \A i, j \in DOMAIN commit_log :
        (/\ i < j
         /\ commit_log[i].user_id = commit_log[j].user_id
         /\ commit_log[i].pack_type.type = "free"
         /\ commit_log[j].pack_type.type = "free")
        => commit_log[j].at - commit_log[i].at >= Hours(CooldownHours)

\* the step in which p's ad interaction is looked up
AdStep(p) ==
    LET ad    == user_ad_interactions[frame[p].user_id]
        fresh == ad # None /\ now - ad[1] < Hours(AdWindowHours)
    IN  (pc[p] = "check_ad" /\ pc'[p] # "check_ad" /\ frame'[p].result # "StorageError")
        => /\ fresh => (pc'[p] = "cache_read" /\ frame'[p].recent_daily_ad = ad)
           /\ ~fresh => /\ frame'[p].result = "AdRequired"
                         /\ pc'[p] = "done"
                         /\ db' = db
                         /\ frame'[p].tx = EmptyTx

\* the step in which a free pack's cooldown is checked
CooldownStep(p) ==
    LET row == user_lootpack_stats[frame[p].user_id]
        hot == /\ row # None
               /\ row[1].last_daily_claim # None
               /\ now - row[1].last_daily_claim[1] < Hours(CooldownHours)
    IN  (/\ pc[p] = "load_stats"
         /\ pc'[p] # "load_stats"
         /\ frame'[p].result # "StorageError"
         /\ frame[p].pack_type[1].type = "free")
        => IF hot THEN frame'[p].result = "Cooldown" ELSE pc'[p] = "check_ad"

\* C6: ad requirement. A free pack is validated by the cooldown check first and the ad
\* lookup second; the lookup passes only on a completed daily_pack_ad interaction of the
\* user less than one hour old, without one the call returns the ad-required BadRequest
\* and writes nothing, and every committed free-pack opening passed the lookup.
C6_AdRequired ==
    /\ [][\A p \in Procs : AdStep(p) /\ CooldownStep(p)]_vars
    /\ [](\A p \in Procs :
            /\ (frame[p].result = "Ok" /\ frame[p].pack_type[1].type = "free")
                  => frame[p].recent_daily_ad # None
            /\ frame[p].result = "AdRequired" => frame[p].call_id \notin LoggedIds)

\* a user whose last claim is old enough is refused for want of an ad
C6_Witness ==
    \E p \in Procs :
        /\ frame[p].result = "AdRequired"
        /\ frame[p].user_stats # None
        /\ frame[p].user_stats[1].last_daily_claim # None

\* C7: lazy stats creation. A free-pack opening by a user without a stats row, with a
\* valid recent ad completion, commits (unless a statement fails).
C7_LazyStats ==
    \A p \in Procs :
        (/\ pc[p] = "done"
         /\ frame[p].pack_type # None
         /\ frame[p].pack_type[1].type = "free"
         /\ frame[p].user_stats = None
         /\ frame[p].recent_daily_ad # None
         /\ frame[p].result # "StorageError")
        => frame[p].result = "Ok"

RarePlus == {"rare", "epic", "legendary"}

\* C8: rarity guarantee. A batch generated for a premium pack priced at 299 or more, from
\* a pool holding a rare, epic or legendary template, holds a reward of one of these
\* rarities, whatever count and random draws.
C8_RarityGuarantee ==
    (/\ gen.phase = "output"
     /\ gen.pack_type.type = "premium"
     /\ gen.pack_type.price_coins # None
     /\ gen.pack_type.price_coins[1] >= 299
     /\ \E i \in DOMAIN gen.pool.rewards : gen.pool.rewards[i].template.rarity \in RarePlus)
    => \E i \in DOMAIN gen.rewards : gen.rewards[i].rarity \in RarePlus

\* a premium pack priced exactly 299 and a count of zero: the guaranteed reward is alone
C8_Witness ==
    /\ gen.phase = "output"
    /\ gen.pack_type.type = "premium"
    /\ gen.pack_type.price_coins = Some(299)
    /\ gen.count = 0
    /\ Len(gen.rewards) = 1
    /\ gen.rewards[1].rarity \in RarePlus

\* lookups i and j of one pack type, j starting after i returned, with no other lookup of
\* that pack type returning between them and no configuration change between them
Consecutive(i, j) ==
    /\ i < j
    /\ pool_log[i].pack_type_id = pool_log[j].pack_type_id
    /\ pool_log[j].began.at >= i
    /\ pool_log[j].began.changes = pool_log[i].changes
    /\ \A m \in DOMAIN pool_log :
          (i < m /\ m < j) => pool_log[m].pack_type_id # pool_log[i].pack_type_id

\* C9: idempotent cache. Two consecutive, non-overlapping calls of
\* get_reward_pool_for_pack for one pack type, with no configuration change between them,
\* return equal pools, and the second runs no storage query.
C9_IdempotentCache ==
    \A i, j \in DOMAIN pool_log :
        Consecutive(i, j) => (pool_log[j].pool = pool_log[i].pool /\ ~pool_log[j].queried)

\* a lookup that built the pool from storage is followed by one served from the cache
C9_Witness ==
    \E i, j \in DOMAIN pool_log :
        /\ Consecutive(i, j)
        /\ pool_log[i].queried
        /\ ~pool_log[j].queried
        /\ pool_log[j].pool = pool_log[i].pool

\* C10: build-once cache. A cached pool is never replaced by a different pool, and a
\* lookup that starts after another lookup of the same pack type returned gets the same
\* pool, under any interleaving and any configuration change.
C10_BuildOnce ==
    /\ [][\A k \in PackIds : reward_cache[k] # None => reward_cache'[k] = reward_cache[k]]_vars
    /\ [](\A i, j \in DOMAIN pool_log :
            (/\ i < j
             /\ pool_log[i].pack_type_id = pool_log[j].pack_type_id
             /\ pool_log[j].began.at >= i)
            => pool_log[j].pool = pool_log[i].pool)

\* the step in which p's transaction commits and its response is assembled
CommitStep(p) == pc[p] = "commit" /\ frame'[p].result = "Ok"

\* C11: one claim-availability projection. The stats snapshot open_pack returns has
\* can_claim_daily true exactly when the last_daily_claim it wrote is absent or at least
\* 24 hours old, next_daily_claim = last_daily_claim + 24h when not claimable and absent
\* otherwise, and so equals what get_user_stats reports for the same row at that instant.
C11_Projection ==
    [][\A p \in Procs :
          CommitStep(p) =>
              LET r     == frame'[p].response[1].updated_stats
                  after == frame[p].updated_stats[1]
              IN  /\ r.can_claim_daily <=> (\/ after.last_daily_claim = None
                                            \/ now - after.last_daily_claim[1]
                                                  >= Hours(CooldownHours))
                  /\ r.can_claim_daily <=> (r.next_daily_claim = None)
                  /\ r = user_stats_projection(after, now)]_vars

\* C12: streak law. A committed free-pack opening sets last_daily_claim to the time of the
\* opening and daily_streak to 1 when there was no earlier claim, to daily_streak + 1 when
\* the earlier claim is 24 to 47 whole hours old and to 1 when it is 48 or more hours old;
\* a committed opening of a non-free pack leaves daily_streak and last_daily_claim as they
\* were stored.
C12_StreakLaw ==
    [][\A p \in Procs :
          CommitStep(p) =>
              LET u     == frame[p].user_id
                  t     == frame[p].advanced_at
                  pre   == user_lootpack_stats[u][1]
                  post  == user_lootpack_stats'[u][1]
                  h     == num_hours(t - pre.last_daily_claim[1])
              IN  IF frame[p].pack_type[1].type = "free"
                  THEN /\ post.last_daily_claim = Some(t)
                       /\ pre.last_daily_claim = None => post.daily_streak = 1
                       /\ (/\ pre.last_daily_claim # None
                            /\ h >= CooldownHours /\ h < StreakResetHours)
                           => post.daily_streak = pre.daily_streak + 1
                       /\ (pre.last_daily_claim # None /\ h >= StreakResetHours)
                           => post.daily_streak = 1
                  ELSE /\ post.daily_streak = pre.daily_streak
                       /\ post.last_daily_claim = pre.last_daily_claim]_vars

\* C13: level-up law. A committed opening adds 10 to level_progress; when the sum reaches
\* 100 the level rises by one, level_progress becomes 0 and deal_coins receives 100 on top
\* of coin_bonus - pack_cost; otherwise level stays and level_progress is the sum. In both
\* cases total_packs_opened rises by one.
C13_LevelUpLaw ==
    [][\A p \in Procs :
          CommitStep(p) =>
              LET u     == frame[p].user_id
                  pre   == user_lootpack_stats[u][1]
                  post  == user_lootpack_stats'[u][1]
                  roll  == coin_bonus(frame[p].generated_rewards)
                             - pack_cost(frame[p].pack_type[1])
                  sum   == pre.level_progress + LevelProgressGain
              IN  /\ post.total_packs_opened = pre.total_packs_opened + 1
                  /\ IF sum >= LevelProgressCap
                     THEN /\ post.level = pre.level + 1
                          /\ post.level_progress = 0
                          /\ post.deal_coins = pre.deal_coins + roll + LevelUpBonus
                     ELSE /\ post.level = pre.level
                          /\ post.level_progress = sum
                          /\ post.deal_coins = pre.deal_coins + roll]_vars

\* the laws of C12 and C13 hold of the row each committed opening had loaded
LawsOfLoadedRow ==
    \A i \in DOMAIN commit_log :
        LET e   == commit_log[i]
            h   == num_hours(e.at - e.read.last_daily_claim[1])
            sum == e.read.level_progress + LevelProgressGain
            roll == coin_bonus(e.rewards) - pack_cost(e.pack_type)
        IN  /\ e.written.total_packs_opened = e.read.total_packs_opened + 1
            /\ IF sum >= LevelProgressCap
               THEN /\ e.written.level = e.read.level + 1
                    /\ e.written.level_progress = 0
                    /\ e.written.deal_coins = e.read.deal_coins + roll + LevelUpBonus
               ELSE /\ e.written.level = e.read.level
                    /\ e.written.level_progress = sum
                    /\ e.written.deal_coins = e.read.deal_coins + roll
            /\ IF e.pack_type.type = "free"
               THEN /\ e.written.last_daily_claim = Some(e.at)
                    /\ e.written.daily_streak =
                          IF e.read.last_daily_claim = None THEN 1
                          ELSE IF h >= StreakResetHours THEN 1
                          ELSE e.read.daily_streak + 1
                    /\ e.read.last_daily_claim # None => h >= CooldownHours
               ELSE /\ e.written.daily_streak = e.read.daily_streak
                    /\ e.written.last_daily_claim = e.read.last_daily_claim

\* C14: level-progress range. A stored level_progress that is in 0..99 stays in 0..99,
\* and the stored level never decreases.
C14_LevelRange ==
    [][\A u \in Users :
          (user_lootpack_stats[u] # None /\ user_lootpack_stats'[u] # None)
          => /\ user_lootpack_stats'[u][1].level_progress \in 0..(LevelProgressCap - 1)
             /\ user_lootpack_stats'[u][1].level >= user_lootpack_stats[u][1].level]_vars

\* the stored level_progress is in 0..99
ProgressInRange ==
    \A u \in Users :
        user_lootpack_stats[u] # None
        => user_lootpack_stats[u][1].level_progress \in 0..(LevelProgressCap - 1)

\* the pools get_reward_pool_for_pack has built or is handing on
BuiltPools ==
    {frame[p].built[1] : p \in {q \in Procs : frame[q].built # None}}
    \cup (IF gen.phase \in {"input", "output"} THEN {gen.pool} ELSE {})

\* C15: weight monotonicity. In every built pool the cumulative_weight values are
\* non-decreasing along the pool order, and the last of them is the pool's total_weight
\* (0 for an empty pool).
C15_WeightMonotone ==
    \A pool \in BuiltPools :
        /\ \A i, j \in 1..Len(pool.rewards) :
              i <= j => pool.rewards[i].cumulative_weight <= pool.rewards[j].cumulative_weight
        /\ pool.total_weight = IF pool.rewards = <<>> THEN 0
                               ELSE pool.rewards[Len(pool.rewards)].cumulative_weight

\* C16: reward expiry comes from the template. Every committed inventory row carries the
\* expiry of the GeneratedReward returned to the caller for that slot, which is absent
\* for a points reward and otherwise the time of the opening plus the template's
\* validity_days.
C16_ExpiryFromTemplate ==
    \A i \in DOMAIN commit_log :
        \A r \in InventoryOf(commit_log[i].call_id) :
            LET reward == commit_log[i].rewards[r.slot]
            IN  /\ r.expires_at = reward.expires_at
                /\ reward.type = "points" => reward.expires_at = None
                /\ (reward.type # "points" /\ reward.expires_at # None)
                   => \E id \in DOMAIN RewardTemplates :
                         /\ RewardTemplates[id].title = reward.title
                         /\ RewardTemplates[id].validity_days # None
                         /\ reward.expires_at[1] - commit_log[i].at
                              = Days(RewardTemplates[id].validity_days[1])

ValidationErrors == {"NotFound", "Cooldown", "AdRequired", "Insufficient"}

\* the step in which p's call returns a validation error
ValidationFailStep(p) ==
    /\ frame'[p] # frame[p]
    /\ frame'[p].result \in ValidationErrors

\* C17: validation failures have no effect. Until validation has passed a call has
\* written nothing and built no pool; the step that returns NotFound or a BadRequest
\* leaves the stats row, the inventory, the history and the pool cache as they were; and
\* no row, stats write or pool lookup of such a call ever exists.
C17_ValidationNoEffect ==
    /\ [](\A p \in Procs :
            pc[p] \in {"load_stats", "check_ad"}
            => /\ frame[p].tx = EmptyTx
               /\ frame[p].built = None /\ frame[p].reward_pool = None
               /\ ~frame[p].queried)
    /\ [][\A p \in Procs :
            ValidationFailStep(p)
            => /\ UNCHANGED <<db, reward_cache>>
               /\ pc[p] \in {"idle", "done", "load_stats", "check_ad"}]_vars
    /\ [](\A p \in Procs :
            frame[p].result \in ValidationErrors
            => /\ frame[p].call_id \notin LoggedIds
               /\ \A h \in user_pack_history : h.id # frame[p].call_id
               /\ InventoryOf(frame[p].call_id) = {}
               /\ \A i \in DOMAIN pool_log : pool_log[i].call_id # frame[p].call_id)

\* a second free opening is refused while the history holds the first one
C17_Witness ==
    \E p \in Procs :
        /\ frame[p].result = "Cooldown"
        /\ user_pack_history # {}
        /\ \E k \in PackIds : reward_cache[k] # None

\* the calls that were handed a pool of total weight 0
Degenerate(f) == f.reward_pool # None /\ f.reward_pool[1].total_weight = 0

\* C18: degenerate pool. A call whose pool has total_weight 0 rolls without a fault: it
\* holds the guaranteed reward at most and no weighted reward, it ends with no error
\* other than a storage failure or the missing stats row, and when it commits its
\* pack-history row counts exactly the rewards it holds (possibly none).
C18_DegeneratePool ==
    \A p \in Procs :
        Degenerate(frame[p]) =>
            LET f  == frame[p]
                pt == f.pack_type[1]
            IN  /\ Len(f.generated_rewards)
                     <= IF pt.type = "premium" /\ pt.price_coins # None
                           /\ pt.price_coins[1] >= GuaranteeMinPrice THEN 1 ELSE 0
                /\ \A i \in DOMAIN f.generated_rewards :
                      f.generated_rewards[i].rarity \in RarePlus
                /\ f.result \in {"", "Ok", "StorageError", "InternalError"}
                /\ f.result = "InternalError" => f.user_stats = None
                /\ f.result = "Ok"
                   => /\ \E h \in user_pack_history :
                            /\ h.id = f.call_id
                            /\ h.rewards_count = Len(f.generated_rewards)
                      /\ Cardinality(InventoryOf(f.call_id)) = Len(f.generated_rewards)
                      /\ f.response[1].rewards = f.generated_rewards

\* an opening over a pool of weightless templates commits with a history row of 0 rewards
C18_Witness ==
    \E p \in Procs :
        /\ Degenerate(frame[p])
        /\ frame[p].reward_pool[1].rewards # <<>>
        /\ frame[p].num_rewards = 1
        /\ frame[p].result = "Ok"
        /\ \E h \in user_pack_history : h.id = frame[p].call_id /\ h.rewards_count = 0

\* an opening over a weightless pool commits with the guaranteed reward alone
DegenerateGuaranteed ==
    \E p \in Procs :
        /\ Degenerate(frame[p])
        /\ frame[p].num_rewards = 2
        /\ frame[p].result = "Ok"
        /\ Len(frame[p].generated_rewards) = 1

\* C19: the cache read path does not wait on pool builds. A task whose mappings query is
\* in flight holds neither the read lock nor the write lock; the read lock is held only
\* for the lookup and the write lock only for the insert; so while one task builds a
\* pool and the other asks for the read lock, the lock has no writer and the read
\* resolves.
C19_NoLockAcrossQuery ==
    /\ \A p \in Procs :
          pc[p] \in {"query", "write_wait"}
          => p \notin cache_lock.readers /\ cache_lock.writer # Some(p)
    /\ \A p \in cache_lock.readers : pc[p] = "read_held"
    /\ \A p \in Procs : cache_lock.writer = Some(p) => pc[p] = "write_held"
    /\ cache_lock.writer # None => cache_lock.readers = {}
    /\ \A p, q \in Procs :
          (pc[q] = "query" /\ pc[p] = "read_wait" /\ Procs = {p, q})
          => cache_lock.writer = None

\* a hit for one pack type is being served while the pool of another is being built
C19_Witness ==
    \E p, q \in Procs :
        /\ pc[q] = "query"
        /\ pc[p] = "read_held"
        /\ p \in cache_lock.readers
        /\ reward_cache[frame[p].pack_type_id] # None
        /\ frame[p].pack_type_id # frame[q].pack_type_id

\* two tasks hold the read lock at once
ReadersShare == cache_lock.readers = Procs

\* C20: the balance never goes negative. With stats rows that start at deal_coins >= 0
\* and points rewards of non-negative value, every stored deal_coins is >= 0, whatever
\* calls ran and however they interleaved.
C20_BalanceNonNegative ==
    \A u \in Users :
        user_lootpack_stats[u] # None => user_lootpack_stats[u][1].deal_coins >= 0

\* two concurrent purchases that the balance covers only once have both committed
C20_Witness ==
    \E i, j \in DOMAIN commit_log :
        /\ i < j
        /\ commit_log[i].user_id = commit_log[j].user_id
        /\ commit_log[i].pack_type.type = "premium"
        /\ commit_log[j].pack_type.type = "premium"
        /\ commit_log[i].read = commit_log[j].read
        /\ commit_log[i].read.deal_coins
             < commit_log[i].pack_type.price_coins[1] + commit_log[j].pack_type.price_coins[1]
        /\ user_lootpack_stats[commit_log[i].user_id][1].deal_coins >= 0

\* the committed pack-history rows of u
HistoryOf(u) == {h \in user_pack_history : h.user_id = u}

\* C21: history, inventory and response agree. For every committed opening the
\* rewards_count of its pack-history row, the number of inventory rows tagged with that
\* row's id and the length of the returned reward list are equal; and for every user the
\* number of committed pack-history rows is the growth of total_packs_opened.
C21_Agreement ==
    /\ \A i \in DOMAIN commit_log :
          \E h \in user_pack_history :
              /\ h.id = commit_log[i].call_id
              /\ h.rewards_count = Cardinality(InventoryOf(h.id))
              /\ h.rewards_count = Len(commit_log[i].rewards)
    /\ \A p \in Procs :
          frame[p].result = "Ok"
          => Len(frame[p].response[1].rewards) = Cardinality(InventoryOf(frame[p].call_id))
    /\ \A u \in Users :
          HistoryOf(u) # {}
          => Cardinality(HistoryOf(u))
               = user_lootpack_stats[u][1].total_packs_opened
                   - base_stats[u][1].total_packs_opened

\* the first two conjuncts of C21 alone: counts of one opening
CountsOfOneOpening ==
    /\ \A i \in DOMAIN commit_log :
          \E h \in user_pack_history :
              /\ h.id = commit_log[i].call_id
              /\ h.rewards_count = Cardinality(InventoryOf(h.id))
              /\ h.rewards_count = Len(commit_log[i].rewards)
    /\ \A p \in Procs :
          frame[p].result = "Ok"
          => Len(frame[p].response[1].rewards) = Cardinality(InventoryOf(frame[p].call_id))

\* C22: reward-count bound. One generate_rewards call never returns more rewards than
\* the count it was asked for, the guaranteed reward taking one of the slots, and it
\* returns exactly that many whenever the pool's total_weight is positive.
C22_CountBound ==
    gen.phase = "output"
    => /\ Len(gen.rewards) <= gen.count
       /\ gen.pool.total_weight > 0 => Len(gen.rewards) = gen.count

\* without the guarantee the bound holds, and is met when total_weight is positive
CountBoundUnguaranteed ==
    (gen.phase = "output" /\ ~guarantee_applies(gen.pack_type))
    => /\ Len(gen.rewards) <= gen.count
       /\ gen.pool.total_weight > 0 => Len(gen.rewards) = gen.count

\* with a count of at least 1 the bound holds as well
CountBoundPositive ==
    (gen.phase = "output" /\ gen.count >= 1)
    => /\ Len(gen.rewards) <= gen.count
       /\ gen.pool.total_weight > 0 => Len(gen.rewards) = gen.count

====
